---- MODULE Spec2Model ----
(***************************************************************************)
(* Model of the mail service: the chunked upload endpoints                 *)
(* (POST /upload/chunk, POST /upload/complete), the asynchronous write     *)
(* stream that upload completion leaves behind, and the send pipeline      *)
(* (POST /send) with its email and attachment tables.                      *)
(*                                                                         *)
(* Names inside the uploads directory are sequences of segments: the       *)
(* string "a-b-c.txt" is <<"a", "b", "c.txt">>, so that joining with "-"   *)
(* is concatenation and split("-") is the sequence itself.                 *)
(***************************************************************************)
EXTENDS Integers, Sequences, FiniteSets, TLC

\* ---------------------------------------------------------------- bounds
\* chunk indices are 0 .. MaxIndex-1, totalChunks is 0 .. MaxIndex
MaxIndex == 2
\* number of chunk requests that write a chunk
MaxPuts == 2
\* number of completion requests that reach createWriteStream
MaxCompletes == 2
\* number of send requests handled
MaxSends == 2

\* ---------------------------------------------------------------- inputs
\* fileId values a client may send: two distinct ids, one extending the other
FileIds == { <<"a">>, <<"a", "b">> }
\* fileName values a client may send
FileNames == { <<"c.txt">>, <<"b", "c.txt">> }
\* the two uploads of the upload endpoints alone, as (fileId, fileName)
Uploads == { << <<"a">>, <<"b", "c.txt">> >>, << <<"a", "b">>, <<"c.txt">> >> }
\* the upload of the whole service
OneUpload == { << <<"a">>, <<"c.txt">> >> }
\* request bodies of a chunk: byte sequences
Bodies == { <<1>>, <<2>> }
\* decimal text of the small numbers of the model
ToStr(n) ==
  CASE n = 0 -> "0" [] n = 1 -> "1" [] n = 2 -> "2" [] n = 3 -> "3"
    [] n = 4 -> "4" [] OTHER -> "5"
\* raw query parameter chunkIndex: a number in range, or not a number
QueryNums == { ToStr(i) : i \in 0..(MaxIndex - 1) } \cup { "x" }

VARIABLES
  chunkDirs,   \* uploadsDir/<fileId>/chunk-<i>: directory name -> (index -> bytes)
  files,       \* regular files of uploadsDir: name -> [ino, data]
  streams,     \* the write streams created by /upload/complete, oldest first
  over,        \* the last chunk write replaced different bytes under its name
  nPut,        \* chunk files written so far
  emails,      \* table emails: row id -> row
  attachments, \* table attachments, in insertion order
  statusLog,   \* the UPDATE statements run on emails, in order
  sends        \* the /send requests handled, oldest first

uploadVars == <<chunkDirs, streams, over, nPut>>
dbVars == <<emails, attachments, statusLog>>
vars == <<chunkDirs, files, streams, over, nPut,
          emails, attachments, statusLog, sends>>

\* ---------------------------------------------------------------- helpers
\* parseInt(s, 10) on the query strings of the model
parseInt(s) ==
  CASE s = "0" -> [nan |-> FALSE, val |-> 0]
    [] s = "1" -> [nan |-> FALSE, val |-> 1]
    [] s = "2" -> [nan |-> FALSE, val |-> 2]
    [] s = "3" -> [nan |-> FALSE, val |-> 3]
    [] s = "4" -> [nan |-> FALSE, val |-> 4]
    [] OTHER -> [nan |-> TRUE, val |-> 0]

\* `${fileId}-${fileName}` inside uploadsDir
finalFilePath(fileId, fileName) == fileId \o fileName

\* path.join(uploadsDir, fileId)
chunkDir(fileId) == fileId

RECURSIVE Flatten(_)
Flatten(ss) == IF ss = <<>> THEN <<>> ELSE Head(ss) \o Flatten(Tail(ss))

Max(a, b) == IF a >= b THEN a ELSE b

\* write(fd, chunk) at the descriptor's own offset pos: bytes past the end of
\* the file are zero-filled, bytes in range are overwritten
WriteAt(data, pos, chunk) ==
  [i \in 1..Max(Len(data), pos + Len(chunk)) |->
     IF i > pos /\ i <= pos + Len(chunk) THEN chunk[i - pos]
     ELSE IF i <= Len(data) THEN data[i]
     ELSE 0]

\* number of leading indices 0, 1, ... below n that are present in dir:
\* the loop of /upload/complete stops at the first missing chunk
RECURSIVE ReadUpTo(_, _, _)
ReadUpTo(dir, i, n) ==
  IF i < n /\ i \in DOMAIN dir THEN ReadUpTo(dir, i + 1, n) ELSE i

Restrict(f, S) == [x \in S |-> f[x]]

\* ---------------------------------------------------------------- state
Init ==
  /\ chunkDirs = << >>
  /\ files = << >>
  /\ streams = << >>
  /\ over = FALSE
  /\ nPut = 0
  /\ emails = << >>
  /\ attachments = << >>
  /\ statusLog = << >>
  /\ sends = << >>

\* ------------------------------------------------ POST /upload/chunk
\* a chunk write that keeps a chunk already stored under the name
StoreChunkKeepFirst(dirs, dir, idx, body) ==
  LET old == IF dir \in DOMAIN dirs THEN dirs[dir] ELSE << >>
      new == [i \in DOMAIN old \cup {idx} |-> IF i \in DOMAIN old THEN old[i] ELSE body]
  IN [d \in DOMAIN dirs \cup {dir} |-> IF d = dir THEN new ELSE dirs[d]]

\* the chunk directory after mkdirSync (if absent) and writeFileSync
StoreChunk(dirs, dir, idx, body) ==
  LET old == IF dir \in DOMAIN dirs THEN dirs[dir] ELSE << >>
      new == [i \in DOMAIN old \cup {idx} |-> IF i = idx THEN body ELSE old[i]]
  IN [d \in DOMAIN dirs \cup {dir} |-> IF d = dir THEN new ELSE dirs[d]]

\* answers 400 or 500 without a write, or stores the chunk and answers 200
PutChunk(fileId, fileName, qIndex, qTotal, body) ==
  LET chunkIndex == parseInt(qIndex)
      totalChunks == parseInt(qTotal)
      dirName == chunkDir(fileId)
      replaced == /\ dirName \in DOMAIN chunkDirs
                  /\ chunkIndex.val \in DOMAIN chunkDirs[dirName]
                  /\ chunkDirs[dirName][chunkIndex.val] # body
  IN /\ IF chunkIndex.nan \/ totalChunks.nan \/ fileName = <<>> \/ fileId = <<>>
        THEN UNCHANGED <<chunkDirs, nPut, over>>  \* 400
        ELSE IF dirName \in DOMAIN files
        THEN \* a regular file is in the way: writeFileSync throws, 500
             UNCHANGED <<chunkDirs, nPut, over>>
        ELSE /\ nPut < MaxPuts
             /\ chunkDirs' = StoreChunk(chunkDirs, dirName, chunkIndex.val, body)
             /\ nPut' = nPut + 1
             /\ over' = replaced
     /\ UNCHANGED <<files, streams, dbVars, sends>>

\* ------------------------------------------------ POST /upload/complete
\* the stream returned by fs.createWriteStream: nothing is opened yet; status
\* is the response of the completion that created it
NewStream(fileId, path) ==
  [fileId |-> fileId, path |-> path, fd |-> "unopened", ino |-> 0, buf |-> <<>>, all |-> <<>>,
   pos |-> 0, ended |-> FALSE, status |-> 0]

\* the loop reading the chunks from the highest index down
ReadChunksDescending(dir, k) == [j \in 1..k |-> dir[k - j]]

\* the chunk payloads 0 .. k-1 of dir, in the order the loop reads them
ReadChunks(dir, k) == [j \in 1..k |-> dir[j - 1]]

\* a removal that never finds anything left in the directory
ENOTEMPTYnever(dir) == FALSE

\* fs.rmdirSync throws ENOTEMPTY: an entry is left in the directory
ENOTEMPTY(dir) == DOMAIN dir # {}

\* a removal that leaves the directory in place
rmdirSyncKept(dirs, dirName) == dirs

\* fs.rmdirSync(chunkDir) on an empty directory
rmdirSync(dirs, dirName) == Restrict(dirs, DOMAIN dirs \ {dirName})

Complete(fileId, fileName, totalChunks) ==
  LET dirName == chunkDir(fileId)
      path == finalFilePath(fileId, fileName)
      dir == IF dirName \in DOMAIN chunkDirs THEN chunkDirs[dirName] ELSE << >>
      k == ReadUpTo(dir, 0, totalChunks)
      data == ReadChunks(dir, k)
      rest == Restrict(dir, DOMAIN dir \ (0..(k - 1)))
      stream == [NewStream(fileId, path) EXCEPT !.buf = data, !.all = data,
                                                !.ended = (k = totalChunks)]
  IN /\ IF fileId = <<>> \/ fileName = <<>> \/ totalChunks = 0
        THEN UNCHANGED <<chunkDirs, streams>>  \* 400
        ELSE /\ Len(streams) < MaxCompletes
             /\ IF k < totalChunks
                THEN \* readFileSync threw on chunk k: chunks 0..k-1 are gone
                     /\ chunkDirs' = IF dirName \in DOMAIN chunkDirs
                                     THEN [chunkDirs EXCEPT ![dirName] = rest]
                                     ELSE chunkDirs
                     /\ streams' = Append(streams, [stream EXCEPT !.status = 500])
                ELSE IF ENOTEMPTY(rest)
                THEN \* rmdirSync threw: the directory is not empty
                     /\ chunkDirs' = [chunkDirs EXCEPT ![dirName] = rest]
                     /\ streams' = Append(streams, [stream EXCEPT !.status = 500])
                ELSE /\ chunkDirs' = rmdirSync(chunkDirs, dirName)
                     /\ streams' = Append(streams, [stream EXCEPT !.status = 200])
     /\ UNCHANGED <<files, over, nPut, dbVars, sends>>

\* ------------------------------------------------ write stream callbacks
\* fs.open(path, "w") completes: the file is created, or truncated if present
StreamOpen(s) ==
  /\ s \in DOMAIN streams
  /\ streams[s].fd = "unopened"
  /\ LET path == streams[s].path
         ino == IF path \in DOMAIN files THEN files[path].ino ELSE s
     IN /\ files' = [p \in DOMAIN files \cup {path} |->
                       IF p = path THEN [ino |-> ino, data |-> <<>>] ELSE files[p]]
        /\ streams' = [streams EXCEPT ![s].fd = "open", ![s].ino = ino]
  /\ UNCHANGED <<chunkDirs, over, nPut, dbVars, sends>>

\* the writes buffered while the stream was opening are flushed through the
\* open descriptor, at the descriptor's offset, as one writev
StreamWrite(s) ==
  /\ s \in DOMAIN streams
  /\ streams[s].fd = "open"
  /\ streams[s].buf # <<>>
  /\ LET st == streams[s]
         bytes == Flatten(st.buf)
     IN /\ files' = IF st.path \in DOMAIN files /\ files[st.path].ino = st.ino
                    THEN [files EXCEPT ![st.path].data = WriteAt(@, st.pos, bytes)]
                    ELSE files
        /\ streams' = [streams EXCEPT ![s].buf = <<>>,
                                      ![s].pos = st.pos + Len(bytes)]
  /\ UNCHANGED <<chunkDirs, over, nPut, dbVars, sends>>

\* ------------------------------------------------ request values (JSON / form)
Undef == [t |-> "undefined", v |-> ""]
Str(x) == [t |-> "string", v |-> x]
Arr(x) == [t |-> "array", v |-> x]

\* !x for the values above: undefined and "" are falsy, every array is truthy
Falsy(x) == x.t = "undefined" \/ (x.t = "string" /\ x.v = "")

isArray(x) == x.t = "array"

Range(f) == { f[i] : i \in DOMAIN f }

\* ------------------------------------------------ db.ts
\* JSON.stringify of the recipient list, as stored in emails.recipients
JSONstringify(list) == [json |-> list]

\* an insert that returns a row id without storing the row
saveEmailLost(tbl, email) == tbl

\* INSERT INTO emails: the new table; the row id is its length
saveEmail(tbl, email) ==
  Append(tbl, [sender |-> email.sender, recipients |-> JSONstringify(email.recipients),
               subject |-> email.subject, body |-> email.body, status |-> email.status])

\* UPDATE emails SET status = ? WHERE id = ?
updateEmailStatus(tbl, id, status) ==
  IF id \in DOMAIN tbl THEN [tbl EXCEPT ![id].status = status] ELSE tbl

\* the UPDATE statement as it is run: which row, its status before and after
LogUpdate(log, tbl, id, status) ==
  IF id \in DOMAIN tbl
  THEN Append(log, [id |-> id, from |-> tbl[id].status, to |-> status])
  ELSE log

\* an insert that stores no row
saveAttachmentLost(tbl, attachment) == tbl

\* INSERT INTO attachments
saveAttachment(tbl, attachment) == Append(tbl, attachment)

\* saveAttachment for each row of rows, in order
RECURSIVE saveAttachments(_, _)
saveAttachments(tbl, rows) ==
  IF rows = <<>> THEN tbl
  ELSE saveAttachments(saveAttachment(tbl, Head(rows)), Tail(rows))

\* a delete without its WHERE clause
deleteAttachmentsOfAll(tbl, emailId) == << >>

\* DELETE FROM attachments WHERE email_id = ?
deleteAttachmentsByEmailId(tbl, emailId) ==
  SelectSeq(tbl, LAMBDA r : r.emailId # emailId)

\* ------------------------------------------------ POST /send
\* path.extname(filePath).toLowerCase() for the names of the model
ExtName(path) ==
  LET base == path[Len(path)]
  IN CASE base = "c.txt" -> ".txt"
       [] base = "d.PNG" -> ".png"
       [] OTHER -> ""

getMimeType(path) ==
  LET extension == ExtName(path)
  IN CASE extension \in {".jpg", ".jpeg"} -> "image/jpeg"
       [] extension = ".png" -> "image/png"
       [] extension = ".gif" -> "image/gif"
       [] extension = ".pdf" -> "application/pdf"
       [] extension = ".doc" -> "application/msword"
       [] extension = ".docx" ->
            "application/vnd.openxmlformats-officedocument.wordprocessingml.document"
       [] extension = ".xls" -> "application/vnd.ms-excel"
       [] extension = ".xlsx" ->
            "application/vnd.openxmlformats-officedocument.spreadsheetml.sheet"
       [] extension = ".txt" -> "text/plain"
       [] extension = ".zip" -> "application/zip"
       [] extension = ".mp3" -> "audio/mpeg"
       [] extension = ".mp4" -> "video/mp4"
       [] OTHER -> "application/octet-stream"

\* path.basename(filePath).split("-").slice(1).join("-")
displayName(path) == Tail(path)

\* fileContent.toString("base64")
base64(data) == [base64 |-> data]

\* multer's filename: fieldname-<Date.now()>-<random>-originalname; n numbers
\* the uploaded files of the run, which keeps the suffixes distinct
multerName(n, originalname) == <<"attachments", ToStr(n), "r">> \o originalname

\* the per-file loop of /send over paths, reading from fs: one entry per path
\* that could be read, holding the attachment row and the message descriptor
RECURSIVE ProcessFiles(_, _, _)
ProcessFiles(paths, fs, emailId) ==
  IF paths = <<>> THEN <<>>
  ELSE LET filePath == Head(paths)
           fileName == displayName(filePath)
           mimeType == getMimeType(filePath)
           one == IF filePath \in DOMAIN fs
                  THEN << [row |-> [emailId |-> emailId, filename |-> fileName,
                                     contentType |-> mimeType],
                           desc |-> [content |-> base64(fs[filePath].data),
                                      filename |-> fileName, type |-> mimeType,
                                      disposition |-> "attachment"]] >>
                  ELSE <<>>  \* readFileSync threw: logged, the file is skipped
       IN one \o ProcessFiles(Tail(paths), fs, emailId)

\* a cleanup that stops before the last tracked file
UnlinkAllButLast(fs, paths) ==
  Restrict(fs, DOMAIN fs \ { paths[i] : i \in 1..(Len(paths) - 1) })

\* uploadedFiles.forEach(unlinkSync), a failing unlink being logged only
UnlinkAll(fs, paths) == Restrict(fs, DOMAIN fs \ Range(paths))

\* the files multer has stored before the handler runs
MulterStore(fs, n, originals) ==
  [p \in DOMAIN fs \cup { multerName(n + i, originals[i]) : i \in DOMAIN originals } |->
     IF p \in DOMAIN fs THEN fs[p] ELSE [ino |-> 0 - Len(p), data |-> <<9>>]]

\* the handler up to `await sgMail.send(msg)`; insertFails: saveEmail throws
Send(req, insertFails) ==
  LET n == Len(sends)
      direct == [i \in DOMAIN req.files |-> multerName(n + i, req.files[i])]
      fs == MulterStore(files, n, req.files)
      extra == IF Falsy(req.attachmentPaths) THEN <<>>
               ELSE IF isArray(req.attachmentPaths) THEN req.attachmentPaths.v
               ELSE <<req.attachmentPaths.v>>
      allFilePaths == direct \o extra
      invalid == Falsy(req.sender) \/ Falsy(req.recipients) \/ Falsy(req.subject)
                   \/ Falsy(req.body)
      recipientList == IF isArray(req.recipients) THEN req.recipients.v
                       ELSE <<req.recipients.v>>
      emailData == [sender |-> req.sender.v, recipients |-> recipientList,
                    subject |-> req.subject.v, body |-> req.body.v, status |-> "pending"]
      emailId == Len(emails) + 1
      done == ProcessFiles(allFilePaths, fs, emailId)
      msg == [to |-> recipientList, from |-> req.sender.v, subject |-> req.subject.v,
              text |-> req.body.v, html |-> req.body.v,
              attachments |-> [i \in DOMAIN done |-> done[i].desc]]
      base == [req |-> req, paths |-> allFilePaths, pc |-> "done", emailId |-> 0,
               uploadedFiles |-> <<>>, invoked |-> FALSE, msg |-> <<>>,
               outcome |-> "none", status |-> 0]
  IN /\ Len(sends) < MaxSends
     /\ files' = fs
     /\ IF invalid
        THEN /\ sends' = Append(sends, [base EXCEPT !.status = 400])
             /\ UNCHANGED dbVars
        ELSE IF insertFails
        THEN \* caught with emailId undefined and uploadedFiles still empty
             /\ sends' = Append(sends, [base EXCEPT !.status = 500])
             /\ UNCHANGED dbVars
        ELSE /\ emails' = saveEmail(emails, emailData)
             /\ attachments' = saveAttachments(attachments,
                                                [i \in DOMAIN done |-> done[i].row])
             /\ sends' = Append(sends, [base EXCEPT !.pc = "await", !.emailId = emailId,
                                          !.uploadedFiles = allFilePaths,
                                          !.invoked = TRUE, !.msg = msg])
             /\ UNCHANGED statusLog
     /\ UNCHANGED uploadVars

\* sgMail.send resolved: the rest of the try block; deleteFails:
\* deleteAttachmentsByEmailId throws, which lands in the catch block; the
\* local msg is gone once the handler has responded
DeliverySuccess(k, deleteFails) ==
  /\ k \in DOMAIN sends
  /\ sends[k].pc = "await"
  /\ LET emailId == sends[k].emailId
         sent == updateEmailStatus(emails, emailId, "sent")
         logSent == LogUpdate(statusLog, emails, emailId, "sent")
     IN /\ files' = UnlinkAll(files, sends[k].uploadedFiles)
        /\ IF deleteFails
           THEN /\ emails' = updateEmailStatus(sent, emailId, "failed")
                /\ statusLog' = LogUpdate(logSent, sent, emailId, "failed")
                /\ UNCHANGED attachments
                /\ sends' = [sends EXCEPT ![k].pc = "done", ![k].outcome = "success",
                                          ![k].status = 500, ![k].msg = <<>>]
           ELSE /\ emails' = sent
                /\ statusLog' = logSent
                /\ attachments' = deleteAttachmentsByEmailId(attachments, emailId)
                /\ sends' = [sends EXCEPT ![k].pc = "done", ![k].outcome = "success",
                                          ![k].status = 200, ![k].msg = <<>>]
  /\ UNCHANGED uploadVars

\* sgMail.send rejected: the catch block
DeliveryFailure(k) ==
  /\ k \in DOMAIN sends
  /\ sends[k].pc = "await"
  /\ LET emailId == sends[k].emailId
     IN /\ emails' = updateEmailStatus(emails, emailId, "failed")
        /\ statusLog' = LogUpdate(statusLog, emails, emailId, "failed")
        /\ files' = UnlinkAll(files, sends[k].uploadedFiles)
        /\ sends' = [sends EXCEPT ![k].pc = "done", ![k].outcome = "error",
                                  ![k].status = 500, ![k].msg = <<>>]
  /\ UNCHANGED <<uploadVars, attachments>>

\* the send requests of the model: a complete request without attachments, the
\* same with one field missing or empty, and a complete request with attachments
GoodFields == [sender |-> Str("s@x"), recipients |-> Str("r@x"),
               subject |-> Str("hi"), body |-> Str("text")]
FieldSets ==
  { GoodFields, [GoodFields EXCEPT !.recipients = Arr(<<"r@x", "q@x">>)],
    [GoodFields EXCEPT !.recipients = Arr(<<>>)] }
  \cup { [GoodFields EXCEPT ![f] = x] :
           f \in {"sender", "recipients", "subject", "body"}, x \in {Undef, Str("")} }
\* original names of directly uploaded files
Originals == { <<>>, << <<"d.PNG">> >> }
\* attachmentPaths: absent, one artifact path, or a list naming a path twice
PathInputs ==
  { Undef, Str(<<"a", "c.txt">>), Arr(<< <<"a", "c.txt">>, <<"a", "c.txt">> >>) }
Request(f, o, a) ==
  [sender |-> f.sender, recipients |-> f.recipients, subject |-> f.subject,
   body |-> f.body, files |-> o, attachmentPaths |-> a]
\* complete requests with and without attachments
SendRequests == { Request(GoodFields, o, a) : o \in Originals, a \in PathInputs }
Requests == { Request(f, <<>>, Undef) : f \in FieldSets } \cup SendRequests
\* complete requests that name the artifact of the upload
ArtifactRequests == { req \in SendRequests : req.attachmentPaths # Undef }

\* ---------------------------------------------------------------- next
UploadNext(uploads, bodies, limit) ==
  \/ \E fileId \in { u[1] : u \in uploads }, qIndex \in QueryNums, body \in bodies :
       PutChunk(fileId, <<"c.txt">>, qIndex, ToStr(MaxIndex), body)
  \/ \E u \in uploads, totalChunks \in 0..MaxIndex :
       Len(streams) < limit /\ Complete(u[1], u[2], totalChunks)
  \/ \E s \in 1..MaxCompletes : StreamOpen(s)
  \/ \E s \in 1..MaxCompletes : StreamWrite(s)

SendNext(requests, limit) ==
  \/ \E req \in requests, insertFails \in BOOLEAN :
       Len(sends) < limit /\ Send(req, insertFails)
  \/ \E k \in 1..MaxSends : DeliveryFailure(k)
  \/ \E k \in 1..MaxSends, deleteFails \in BOOLEAN : DeliverySuccess(k, deleteFails)

\* the upload endpoints alone, with two upload sessions
NextUpload == UploadNext(Uploads, Bodies, MaxCompletes)
SpecUpload == Init /\ [][NextUpload]_vars

\* the send endpoint alone: no artifact has been assembled
NextSend == SendNext(Requests, MaxSends)
SpecSend == Init /\ [][NextSend]_vars

\* the whole service, with one upload and complete send requests, and one
\* completion and one send less than the endpoints alone
Next ==
  \/ UploadNext(OneUpload, { <<1>> }, MaxCompletes - 1)
  \/ SendNext(ArtifactRequests, MaxSends - 1)
Spec == Init /\ [][Next]_vars

\* ================================================================ claims
\* the bytes of chunks i .. n-1 of dir, concatenated in ascending index order
RECURSIVE Concat(_, _, _)
Concat(dir, i, n) == IF i >= n THEN <<>> ELSE dir[i] \o Concat(dir, i + 1, n)

LastStream(ss) == ss[Len(ss)]

\* stream s is the only stream ever created for its path
Sole(s) == \A t \in DOMAIN streams : t # s => streams[t].path # streams[s].path

\* stream s has been opened and has written everything it was given
Flushed(s) == streams[s].fd = "open" /\ streams[s].buf = <<>>

\* ---------------------------------------------------------------- C1
C1Assemble ==
  Len(streams') = Len(streams) + 1 =>
  \A u \in Uploads \cup OneUpload, n \in 1..MaxIndex :
    ( /\ Complete(u[1], u[2], n)
      /\ chunkDir(u[1]) \in DOMAIN chunkDirs
      /\ 0..(n - 1) \subseteq DOMAIN chunkDirs[chunkDir(u[1])] )
    => /\ LastStream(streams').path = finalFilePath(u[1], u[2])
       /\ LastStream(streams').ended
       /\ Flatten(LastStream(streams').all) = Concat(chunkDirs[chunkDir(u[1])], 0, n)

C1Flushed ==
  \A s \in DOMAIN streams :
    (Flushed(s) /\ Sole(s) /\ streams[s].path \in DOMAIN files)
    => files[streams[s].path].data = Flatten(streams[s].all)

\* C1: when chunks 0..N-1 of an uploadId are stored (whatever the order of the
\* chunk requests that stored them), a completion with that uploadId and N hands
\* the write stream exactly the chunk payloads concatenated in ascending index
\* order, and once the stream of that completion (the only one for its path) has
\* flushed, the artifact file holds exactly those bytes.
C1_AssembleInIndexOrder == [][C1Assemble /\ C1Flushed']_vars

\* a flushed artifact assembled from two chunks with different payloads
C1_Witness ==
  \E s \in DOMAIN streams :
    /\ Flushed(s) /\ Sole(s) /\ streams[s].ended
    /\ Len(streams[s].all) = 2
    /\ streams[s].all[1] # streams[s].all[2]
    /\ streams[s].path \in DOMAIN files
    /\ files[streams[s].path].data = streams[s].all[1] \o streams[s].all[2]

\* ---------------------------------------------------------------- C2
\* C2: a completion that found an index of [0, N) missing fails, and afterwards
\* no artifact file exists at the final path of that upload: a stream that was
\* left by such a completion (never ended), and is the only stream ever created
\* for its path, has no file at its path.
C2_NoArtifactAfterFailure ==
  \A s \in DOMAIN streams :
    (~streams[s].ended /\ Sole(s)) => streams[s].path \notin DOMAIN files

\* ---------------------------------------------------------------- C9
C9Put ==
  nPut' = nPut + 1 =>
  \A fileId \in FileIds, q \in QueryNums, body \in Bodies :
    PutChunk(fileId, <<"c.txt">>, q, ToStr(MaxIndex), body)
    => LET d == chunkDir(fileId)
           i == parseInt(q).val
           old == IF d \in DOMAIN chunkDirs THEN chunkDirs[d] ELSE << >>
       IN /\ d \in DOMAIN chunkDirs'
          /\ DOMAIN chunkDirs'[d] = DOMAIN old \cup {i}
          /\ chunkDirs'[d][i] = body
          /\ \A j \in DOMAIN old \ {i} : chunkDirs'[d][j] = old[j]

C9Assemble ==
  Len(streams') = Len(streams) + 1 =>
  \A u \in Uploads \cup OneUpload, n \in 1..MaxIndex :
    (Complete(u[1], u[2], n) /\ chunkDir(u[1]) \in DOMAIN chunkDirs)
    => LET st == LastStream(streams')
       IN /\ Len(st.all) <= n
          /\ \A j \in 1..Len(st.all) : st.all[j] = chunkDirs[chunkDir(u[1])][j - 1]

\* C9: a chunk request for an (uploadId, chunkIndex) that is already stored
\* leaves one chunk under that index, holding the bytes of this latest request,
\* and changes no other index; a completion takes for every index it reads the
\* bytes stored at that moment, once.
C9_LastWriteWins == [][C9Put /\ C9Assemble]_vars

\* an index was written twice, the second time with different bytes, and one
\* chunk is stored
C9_Witness ==
  /\ over /\ nPut = 2
  /\ \E d \in DOMAIN chunkDirs :
       /\ Cardinality(DOMAIN chunkDirs[d]) = 1
       /\ \A e \in DOMAIN chunkDirs : e # d => DOMAIN chunkDirs[e] = {}

\* ---------------------------------------------------------------- C10
FileAt(path) ==
  IF path \in DOMAIN files THEN [present |-> TRUE, data |-> files[path].data]
  ELSE [present |-> FALSE, data |-> <<>>]

ChunksOf(fileId, dirs) ==
  IF chunkDir(fileId) \in DOMAIN dirs THEN dirs[chunkDir(fileId)] ELSE << >>

\* C10: two upload sessions with distinct uploadIds never interfere: a chunk
\* request or completion of one uploadId leaves the stored chunks of every other
\* uploadId as they were, and a stream step of one uploadId leaves the flushed
\* artifact of every other uploadId as it was.
C10_Isolation ==
  [][ /\ \A u \in Uploads, q \in QueryNums, body \in Bodies, n \in 0..MaxIndex :
           (PutChunk(u[1], u[2], q, ToStr(MaxIndex), body) \/ Complete(u[1], u[2], n))
           => \A other \in FileIds \ {u[1]} :
                ChunksOf(other, chunkDirs') = ChunksOf(other, chunkDirs)
      /\ \A s \in DOMAIN streams :
           (StreamOpen(s) \/ StreamWrite(s))
           => \A t \in DOMAIN streams :
                (streams[t].fileId # streams[s].fileId /\ Flushed(t) /\ streams[t].ended)
                => FileAt(streams[t].path)' = FileAt(streams[t].path)
    ]_vars

\* ---------------------------------------------------------------- sends
\* send k has returned its response
Returned(k) == sends[k].pc = "done"

\* send k returns in this step
Returns(k) ==
  /\ k \in DOMAIN sends' /\ sends'[k].pc = "done"
  /\ (k \in DOMAIN sends => sends[k].pc # "done")

\* the UPDATE statements run on row id
UpdatesOf(id) == SelectSeq(statusLog, LAMBDA u : u.id = id)

Terminal == {"sent", "failed"}

\* ---------------------------------------------------------------- C3
\* C3: a send that passed validation and created its EmailRecord has, when it
\* returns, made exactly one status transition on that record, from pending to
\* sent or failed, and no step of a send changes a record that is sent or failed.
C3_OneTerminalTransition ==
  /\ \A k \in DOMAIN sends :
       (Returned(k) /\ sends[k].emailId # 0)
       => /\ Len(UpdatesOf(sends[k].emailId)) = 1
          /\ emails[sends[k].emailId].status \in Terminal
  /\ \A i \in DOMAIN statusLog :
       statusLog[i].from = "pending" /\ statusLog[i].to \in Terminal

\* ---------------------------------------------------------------- C4
\* C4: when a send that created its EmailRecord returns, the record is sent if
\* the delivery collaborator reported success and failed if it reported an error.
C4_StatusFollowsDelivery ==
  \A k \in DOMAIN sends :
    (Returned(k) /\ sends[k].emailId # 0)
    => /\ sends[k].outcome = "success" => emails[sends[k].emailId].status = "sent"
       /\ sends[k].outcome = "error" => emails[sends[k].emailId].status = "failed"

\* ---------------------------------------------------------------- C5
\* C5: once a send that created its EmailRecord has returned, after a successful
\* or a failed delivery, no AttachmentRecord with that emailId is in the store.
C5_NoAttachmentRecordsLeft ==
  \A k \in DOMAIN sends :
    (Returned(k) /\ sends[k].emailId # 0)
    => \A i \in DOMAIN attachments : attachments[i].emailId # sends[k].emailId

Incomplete(req) ==
  \/ Falsy(req.sender) \/ Falsy(req.subject) \/ Falsy(req.body)
  \/ req.recipients.t = "undefined"
  \/ (isArray(req.recipients) /\ req.recipients.v = <<>>)

\* C7: a send request with sender, subject or body missing or empty, or with
\* recipients missing or an empty list, is answered with the validation error,
\* creates no EmailRecord and no AttachmentRecord and does not reach the
\* delivery collaborator.
C7_ValidationRejects ==
  [][ \A req \in Requests, insertFails \in BOOLEAN :
        (Send(req, insertFails) /\ Incomplete(req))
        => /\ sends'[Len(sends')].status = 400
           /\ ~sends'[Len(sends')].invoked
           /\ emails' = emails
           /\ attachments' = attachments
    ]_vars

\* ---------------------------------------------------------------- C8
C8Invoke ==
  \A k \in DOMAIN sends' :
    (sends'[k].invoked /\ k \notin DOMAIN sends)
    => /\ sends'[k].emailId = Len(emails) + 1
       /\ Len(emails') = Len(emails) + 1
       /\ emails'[sends'[k].emailId].status = "pending"

C8Stored ==
  \A k \in DOMAIN sends :
    /\ sends[k].invoked => sends[k].emailId \in DOMAIN emails
    /\ sends[k].pc = "await"
         => sends[k].invoked /\ emails[sends[k].emailId].status = "pending"

\* C8: the step that invokes the delivery collaborator has inserted the
\* EmailRecord of the send, with status pending, and names that row; every send
\* that reached the collaborator has its EmailRecord in the store, and the record
\* is pending for as long as the delivery is in flight.
C8_RecordBeforeDelivery == [][C8Invoke /\ C8Stored']_vars

\* two deliveries in flight, each with its own pending EmailRecord
C8_Witness ==
  /\ Len(sends) = 2
  /\ \A k \in DOMAIN sends : sends[k].pc = "await" /\ sends[k].invoked
  /\ sends[1].emailId # sends[2].emailId

\* ---------------------------------------------------------------- C11
\* C11: when the last completion of an upload has failed at a missing index k
\* below N (after reading chunks 0 .. k-1; it asked for N or any other total
\* above k), and the indices k .. N-1 are now stored and no index from N up is,
\* a completion with the same uploadId, fileName and N succeeds and hands the
\* stream the chunks read by the failed call followed by the chunks k .. N-1.
C11_RetryAfterFailure ==
  [][ Len(streams') = Len(streams) + 1 =>
      \A u \in Uploads \cup OneUpload, n \in 1..MaxIndex :
        \A t \in DOMAIN streams :
          LET k == Len(streams[t].all)
              stored == ChunksOf(u[1], chunkDirs)
          IN ( /\ Complete(u[1], u[2], n)
               /\ streams[t].fileId = u[1]
               /\ streams[t].path = finalFilePath(u[1], u[2])
               /\ k < n
               /\ streams[t].status = 500 /\ ~streams[t].ended
               /\ \A r \in DOMAIN streams : streams[r].fileId = u[1] => r <= t
               /\ DOMAIN stored \ (0..(k - 1)) = k..(n - 1) )
             => /\ LastStream(streams').status = 200
                /\ LastStream(streams').ended
                /\ Flatten(LastStream(streams').all)
                     = Flatten(streams[t].all) \o Concat(stored, k, n)
    ]_vars

\* ---------------------------------------------------------------- C12
\* C12: whether or not a cleanup step fails (an unlink of a file that is already
\* gone, or the deletion of the AttachmentRecords), the step that finishes a
\* send after a successful delivery leaves the EmailRecord sent and answers
\* success with the id of the record, and the step that finishes it after a
\* failed delivery leaves the EmailRecord failed and answers the error.
C12_CleanupNeverMasks ==
  [][ \A k \in DOMAIN sends :
        /\ (\E deleteFails \in BOOLEAN : DeliverySuccess(k, deleteFails))
             => /\ emails'[sends[k].emailId].status = "sent"
                /\ sends'[k].status = 200
                /\ sends'[k].emailId = sends[k].emailId
        /\ DeliveryFailure(k)
             => /\ emails'[sends[k].emailId].status = "failed"
                /\ sends'[k].status = 500
    ]_vars

\* ---------------------------------------------------------------- C13
\* stream t belongs to a completion that succeeded, and the file at its path
\* holds exactly the bytes assembled by it
Assembled(t) ==
  /\ streams[t].status = 200 /\ streams[t].ended /\ Flushed(t)
  /\ streams[t].path \in DOMAIN files
  /\ files[streams[t].path].ino = streams[t].ino
  /\ files[streams[t].path].data = Flatten(streams[t].all)

\* C13: once an artifact is assembled, no chunk request, no completion request
\* and no stream step of a later completion of the same uploadId (a repeated
\* completion included) changes the artifact file or its bytes.
C13_ArtifactImmutable ==
  [][ \A t \in DOMAIN streams :
        ( /\ Assembled(t)
          /\ \/ nPut' = nPut + 1
             \/ Len(streams') = Len(streams) + 1
             \/ \E s \in DOMAIN streams :
                  /\ streams[s].fileId = streams[t].fileId
                  /\ StreamOpen(s) \/ StreamWrite(s) )
        => FileAt(streams[t].path)' = FileAt(streams[t].path)
    ]_vars

\* ---------------------------------------------------------------- C14
\* C14: when a send reaches the delivery collaborator with the path returned by
\* a successful completion (the only completion for that path, the path not
\* yet taken by an earlier send), every file it was given is attached and the
\* descriptor of the artifact holds exactly the bytes assembled by the
\* completion, whatever the stream of the completion has done so far.
C14_CompleteMeansReadable ==
  [][ \A k \in DOMAIN sends' \ DOMAIN sends :
        sends'[k].invoked =>
        \A s \in DOMAIN streams :
          ( /\ streams[s].status = 200 /\ Sole(s)
            /\ streams[s].path \in Range(sends'[k].paths)
            /\ \A j \in DOMAIN sends : streams[s].path \notin Range(sends[j].uploadedFiles) )
          => LET m == sends'[k].msg.attachments
             IN /\ Len(m) = Len(sends'[k].paths)
                /\ \A i \in DOMAIN m :
                     sends'[k].paths[i] = streams[s].path
                     => m[i].content = base64(Flatten(streams[s].all))
    ]_vars

\* ---------------------------------------------------------------- C15
\* C15: a send that was given a path it cannot read (no file is there when the
\* handler runs) does not reach the delivery collaborator and answers an error.
C15_UnreadablePathFails ==
  [][ \A k \in DOMAIN sends' \ DOMAIN sends :
        (\E i \in DOMAIN sends'[k].paths : sends'[k].paths[i] \notin DOMAIN files')
        => /\ ~sends'[k].invoked
           /\ sends'[k].status \in {400, 500}
    ]_vars

\* ---------------------------------------------------------------- C16
\* C16: the step in which a completion answers success leaves no staging
\* directory, and so no chunk file, for its uploadId.
C16_SessionGone ==
  [][ (Len(streams') = Len(streams) + 1 /\ LastStream(streams').status = 200)
      => /\ chunkDir(LastStream(streams').fileId) \notin DOMAIN chunkDirs'
         /\ ChunksOf(LastStream(streams').fileId, chunkDirs') = << >>
    ]_vars

\* a completion of two chunks has succeeded and nothing is staged any more
C16_Witness ==
  /\ \E s \in DOMAIN streams :
       /\ streams[s].status = 200 /\ Len(streams[s].all) = 2
       /\ chunkDir(streams[s].fileId) \notin DOMAIN chunkDirs
  /\ nPut = 2

\* ---------------------------------------------------------------- C17
\* the AttachmentRecords of EmailRecord id, in insertion order
RowsOf(tbl, id) == SelectSeq(tbl, LAMBDA r : r.emailId = id)

\* C17: when a send reaches the delivery collaborator having read every file it
\* was given, the descriptor and the AttachmentRecord of a directly uploaded
\* file carry the original name of the file, and those of an assembled
\* artifact carry the fileName of its upload: no prefix segment is left.
C17_DisplayNameStripped ==
  [][ \A k \in DOMAIN sends' \ DOMAIN sends :
        LET m == sends'[k].msg.attachments
            rows == RowsOf(attachments', sends'[k].emailId)
            paths == sends'[k].paths
            nDirect == Len(sends'[k].req.files)
        IN (sends'[k].invoked /\ Len(m) = Len(paths))
           => \A i \in DOMAIN paths :
                /\ i <= nDirect
                     => /\ m[i].filename = sends'[k].req.files[i]
                        /\ rows[i].filename = sends'[k].req.files[i]
                /\ i > nDirect
                     => \A u \in Uploads \cup OneUpload :
                          paths[i] = finalFilePath(u[1], u[2])
                          => m[i].filename = u[2] /\ rows[i].filename = u[2]
    ]_vars

\* ---------------------------------------------------------------- C18
\* the step is taken by send k: it starts the send or moves it on
StepOf(k) == k \notin DOMAIN sends \/ sends'[k] # sends[k]

\* C18: sends that created an EmailRecord have distinct records, and a step of
\* a send leaves every EmailRecord other than its own, and the
\* AttachmentRecords of every other EmailRecord, exactly as they were.
C18_SendIsolation ==
  [][ \A k \in DOMAIN sends' :
        /\ \A j \in DOMAIN sends' :
             (j # k /\ sends'[k].emailId # 0) => sends'[j].emailId # sends'[k].emailId
        /\ StepOf(k)
             => /\ DOMAIN emails \subseteq DOMAIN emails'
                /\ DOMAIN emails' \ DOMAIN emails \subseteq {sends'[k].emailId}
                /\ \A id \in DOMAIN emails' \ {sends'[k].emailId} :
                     /\ emails'[id] = emails[id]
                     /\ RowsOf(attachments', id) = RowsOf(attachments, id)
                /\ \A i \in DOMAIN attachments' : attachments'[i].emailId \in DOMAIN emails'
    ]_vars

\* the second of two sends with attachments has finished and its records are
\* deleted, while the first is still in flight, pending, with its records
C18_Witness ==
  /\ Len(sends) = 2
  /\ sends[1].pc = "await" /\ sends[2].pc = "done" /\ sends[2].status = 200
  /\ Len(sends[2].paths) = 1
  /\ emails[sends[1].emailId].status = "pending"
  /\ emails[sends[2].emailId].status = "sent"
  /\ Len(RowsOf(attachments, sends[1].emailId)) = 1
  /\ RowsOf(attachments, sends[2].emailId) = << >>

\* ---------------------------------------------------------------- C19
\* C19: a completion request with totalChunks N >= 1 answers success exactly
\* when the chunk indices stored for its uploadId at that moment are 0 .. N-1
\* and no other; with an index from N up stored as well it answers a failure.
C19_SuccessIffExactIndices ==
  [][ Len(streams') = Len(streams) + 1 =>
      \A u \in Uploads \cup OneUpload, n \in 1..MaxIndex :
        Complete(u[1], u[2], n)
        => ( LastStream(streams').status = 200
             <=> DOMAIN ChunksOf(u[1], chunkDirs) = 0..(n - 1) )
    ]_vars

\* a completion has read every chunk it asked for and answered a failure,
\* because a chunk with a higher index is stored
C19_Witness ==
  \E s \in DOMAIN streams :
    /\ streams[s].status = 500 /\ streams[s].ended
    /\ Len(streams[s].all) = 1
    /\ DOMAIN ChunksOf(streams[s].fileId, chunkDirs) = {1}

\* ---------------------------------------------------------------- C20
\* C20: when a send reaches the delivery collaborator, the paths it could read
\* are, in order, the paths that contributed: the message has one descriptor
\* and the store one AttachmentRecord of this EmailRecord for each of them and
\* none for any other path, and the i-th descriptor and the i-th record carry
\* the same filename and content type, those derived from the i-th such path.
C20_DescriptorsMatchRecords ==
  [][ \A k \in DOMAIN sends' \ DOMAIN sends :
        sends'[k].invoked =>
        LET m == sends'[k].msg.attachments
            rows == RowsOf(attachments', sends'[k].emailId)
            readable == SelectSeq(sends'[k].paths, LAMBDA p : p \in DOMAIN files')
        IN /\ Len(m) = Len(readable) /\ Len(rows) = Len(readable)
           /\ \A i \in DOMAIN readable :
                /\ m[i].filename = rows[i].filename
                /\ m[i].type = rows[i].contentType
                /\ m[i].filename = displayName(readable[i])
                /\ m[i].type = getMimeType(readable[i])
    ]_vars

\* a delivery is in flight for a send given a directly uploaded file, which it
\* read, and an artifact path, which it could not read: one descriptor and one
\* record
C20_Witness ==
  \E k \in DOMAIN sends :
    /\ sends[k].pc = "await"
    /\ Len(sends[k].paths) = 2
    /\ Len(sends[k].msg.attachments) = 1
    /\ Len(RowsOf(attachments, sends[k].emailId)) = 1
    /\ sends[k].msg.attachments[1].type = "image/png"
    /\ RowsOf(attachments, sends[k].emailId)[1].contentType = "image/png"

====
